---- MODULE Spec2Model ----
(***************************************************************************)
(* Rource: ingestion of git change records by concurrent producers into    *)
(* an in-memory buffer or a length-prefixed disk spool, followed by the    *)
(* sort phase.  The model follows src/src/serde.rs (record codec, spool    *)
(* writer and reader), src/src/structs.rs (the record and its ordering),   *)
(* src/src/git_stuff.rs (read_git_log and its producers) and               *)
(* src/src/main.rs (the orchestration and the in-memory sort).             *)
(*                                                                         *)
(* Byte strings are kept run-length encoded: a sequence of runs <<b, n>>,  *)
(* the byte b repeated n > 0 times, adjacent runs holding different bytes. *)
(* A Rust String is modelled by the family "one character repeated n       *)
(* times", [c |-> character code, n |-> length], which is enough to reach  *)
(* the 65535-byte frame boundary with a state of constant size.            *)
(***************************************************************************)
EXTENDS Integers, Sequences, FiniteSets, Bags, TLC

\* ------------------------------------------------------------------ bounds
\* Number of commits of the repository, one producer (rayon task) each.
NumCommits == 2

\* Whole frames of a spool file read on its own.
MaxFrames == 2

\* Longest sequence handed to a sort phase tried on its own.
MaxSortLen == 3

\* Width of usize in the model: the arithmetic on the changeset limit is
\* modulo 2^UsizeBits as the machine's is modulo 2^64.
UsizeBits == 3

\* Chunk files handed to a k-way merge tried on its own.
MaxChunks == 2
\* Longest change list one commit's diff yields.
MaxBatchLen == 2
\* Largest memory budget of the external sorter, in records of the size of
\* LogA, and longest chunk file handed to a merge tried on its own.
MaxChunkRecords == 2

\* ------------------------------------------------------- program constants
\* u16::MAX, the largest length u16::try_from accepts (serde.rs:18).
U16Max == 65535
\* Capacity of the std::io::BufWriter wrapping the spool file (git_stuff.rs:20).
BufWriterCapacity == 8192

\* ------------------------------------------------------------------ helper
\* F applied to the value of e.  TLC passes operator arguments and LET
\* definitions by name; a bound variable holds a value, so that a result used
\* several times is computed once.
Bind(e, F(_)) == CHOOSE r \in { F(v) : v \in {e} } : TRUE

\* ------------------------------------------------------------ byte strings
EmptyBytes == <<>>

BRun(b, n) == IF n = 0 THEN <<>> ELSE << <<b, n>> >>

RECURSIVE BLen(_)
BLen(s) == IF s = <<>> THEN 0 ELSE Head(s)[2] + BLen(Tail(s))

\* Concatenation, merging the runs that meet when they hold the same byte.
BCat(s, t) ==
    IF s = <<>> THEN t
    ELSE IF t = <<>> THEN s
    ELSE IF s[Len(s)][1] = t[1][1]
         THEN SubSeq(s, 1, Len(s) - 1)
              \o << <<t[1][1], s[Len(s)][2] + t[1][2]>> >>
              \o Tail(t)
         ELSE s \o t

RECURSIVE BFromSeq(_)
BFromSeq(q) == IF q = <<>> THEN <<>> ELSE BCat(BRun(Head(q), 1), BFromSeq(Tail(q)))

\* The first k bytes of s (all of s when it is shorter).
RECURSIVE BTake(_, _)
BTake(s, k) ==
    IF k = 0 \/ s = <<>> THEN <<>>
    ELSE IF Head(s)[2] >= k THEN << <<Head(s)[1], k>> >>
    ELSE <<Head(s)>> \o BTake(Tail(s), k - Head(s)[2])

\* s without its first k bytes.
RECURSIVE BDrop(_, _)
BDrop(s, k) ==
    IF k = 0 \/ s = <<>> THEN s
    ELSE IF Head(s)[2] > k THEN << <<Head(s)[1], Head(s)[2] - k>> >> \o Tail(s)
    ELSE BDrop(Tail(s), k - Head(s)[2])

\* The byte at offset i (0-based) of s; requires i < BLen(s).
RECURSIVE BAt(_, _)
BAt(s, i) == IF i < Head(s)[2] THEN Head(s)[1] ELSE BAt(Tail(s), i - Head(s)[2])

\* Big-endian value of the first k bytes of s; requires k <= BLen(s).
RECURSIVE BigEndian(_, _)
BigEndian(s, k) ==
    IF k = 0 THEN 0 ELSE BigEndian(s, k - 1) * 256 + BAt(s, k - 1)

\* ------------------------------------------------------------------ records
\* enum GourceActionType { A, M, D }: the derived Ord is the declaration order.
ActionTypes == {"A", "M", "D"}

TypeOrdinal(t) == CASE t = "A" -> 0 [] t = "M" -> 1 [] t = "D" -> 2

Str(c, n) == [c |-> IF n = 0 THEN 0 ELSE c, n |-> n]

\* Lexicographic byte order of String::cmp on the strings of the model:
\* -1 less, 0 equal, 1 greater.
StrCmp(s, t) ==
    IF s.n = 0 \/ t.n = 0
    THEN (IF s.n < t.n THEN -1 ELSE IF s.n > t.n THEN 1 ELSE 0)
    ELSE IF s.c # t.c THEN (IF s.c < t.c THEN -1 ELSE 1)
    ELSE IF s.n < t.n THEN -1 ELSE IF s.n > t.n THEN 1 ELSE 0

IntCmp(a, b) == IF a < b THEN -1 ELSE IF a > b THEN 1 ELSE 0

\* Ordering::then : the first result unless it is Equal.
Then(o1, o2) == IF o1 # 0 THEN o1 ELSE o2

\* A comparison that leaves the type out of the key.
CmpWithoutType(a, b) ==
    Then(IntCmp(a.timestamp, b.timestamp),
         Then(StrCmp(a.file, b.file), StrCmp(a.username, b.username)))

\* impl Ord for GourceLogFormat: timestamp, then file, then type, then username.
Cmp(a, b) ==
    Then(IntCmp(a.timestamp, b.timestamp),
         Then(StrCmp(a.file, b.file),
              Then(IntCmp(TypeOrdinal(a.type), TypeOrdinal(b.type)),
                   StrCmp(a.username, b.username))))

GourceLogFormat(ts, user, ty, file) ==
    [timestamp |-> ts, username |-> user, type |-> ty, file |-> file]

\* ------------------------------------------------------------------- codec
\* serde_cbor::ser::to_vec_packed: the struct is a CBOR map of its four fields
\* keyed by field index, a unit enum variant is its index, an i64 is a CBOR
\* integer and a String is a CBOR text string.
RECURSIVE Pow256(_)
Pow256(k) == IF k = 0 THEN 1 ELSE 256 * Pow256(k - 1)

BEBytes(v, k) == [i \in 1..k |-> (v \div Pow256(k - i)) % 256]

\* The initial byte(s) of a CBOR data item: major type and argument.  The
\* integers of the model stay below 2^31, so the 8-byte argument is never
\* written and a head announcing one is not parsed.
CborHead(major, v) ==
    IF v < 24 THEN <<major * 32 + v>>
    ELSE IF v < 256 THEN <<major * 32 + 24>> \o BEBytes(v, 1)
    ELSE IF v < 65536 THEN <<major * 32 + 25>> \o BEBytes(v, 2)
    ELSE <<major * 32 + 26>> \o BEBytes(v, 4)

CborInt(v) == IF v >= 0 THEN CborHead(0, v) ELSE CborHead(1, -1 - v)

CborText(s) == BCat(BFromSeq(CborHead(3, s.n)), BRun(s.c, s.n))

CborKey(i) == BFromSeq(CborHead(0, i))

EncodeCbor(log) ==
    BCat(BFromSeq(CborHead(5, 4)),
    BCat(CborKey(0), BCat(BFromSeq(CborInt(log.timestamp)),
    BCat(CborKey(1), BCat(CborText(log.username),
    BCat(CborKey(2), BCat(BFromSeq(CborHead(0, TypeOrdinal(log.type))),
    BCat(CborKey(3), CborText(log.file)))))))))

ParseFail == [ok |-> FALSE, val |-> 0, rest |-> <<>>]

\* One CBOR head of the wanted major type: its argument and what follows.
ParseHead(s, major) ==
    IF s = <<>> THEN ParseFail
    ELSE LET b     == BAt(s, 0)
             info  == b % 32
             extra == CASE info < 24 -> 0 [] info = 24 -> 1 [] info = 25 -> 2
                        [] info = 26 -> 4 [] OTHER -> -1
         IN  IF \/ b \div 32 # major \/ extra < 0 \/ BLen(s) < 1 + extra
                \/ (extra = 4 /\ BAt(s, 1) >= 128)
             THEN ParseFail
             ELSE [ok   |-> TRUE,
                   val  |-> IF extra = 0 THEN info ELSE BigEndian(BDrop(s, 1), extra),
                   rest |-> BDrop(s, 1 + extra)]

ParseKey(s, i) ==
    LET h == ParseHead(s, 0)
    IN  IF h.ok /\ h.val = i THEN h ELSE ParseFail

ParseInt(s) ==
    LET pos == ParseHead(s, 0)
        neg == ParseHead(s, 1)
    IN  IF pos.ok THEN pos
        ELSE IF neg.ok THEN [neg EXCEPT !.val = -1 - neg.val]
        ELSE ParseFail

\* A text string; the strings of the model repeat one character.
ParseText(s) ==
    LET h    == ParseHead(s, 3)
        body == BTake(h.rest, h.val)
    IN  IF ~h.ok \/ BLen(h.rest) < h.val \/ Len(body) > 1 THEN ParseFail
        ELSE [ok   |-> TRUE,
              val  |-> IF h.val = 0 THEN Str(0, 0) ELSE Str(body[1][1], h.val),
              rest |-> BDrop(h.rest, h.val)]

ParseType(s) ==
    LET h == ParseHead(s, 0)
    IN  IF h.ok /\ h.val \in 0..2
        THEN [h EXCEPT !.val = CHOOSE t \in ActionTypes : TypeOrdinal(t) = h.val]
        ELSE ParseFail

\* serde_cbor::de::from_slice::<GourceLogFormat>: the four fields in the order
\* the encoder writes them and nothing after them.
DecodeCbor(s) ==
    Bind(ParseHead(s, 5), LAMBDA m :
    Bind(ParseKey(m.rest, 0), LAMBDA k0 :
    Bind(ParseInt(k0.rest), LAMBDA ts :
    Bind(ParseKey(ts.rest, 1), LAMBDA k1 :
    Bind(ParseText(k1.rest), LAMBDA us :
    Bind(ParseKey(us.rest, 2), LAMBDA k2 :
    Bind(ParseType(k2.rest), LAMBDA ty :
    Bind(ParseKey(ty.rest, 3), LAMBDA k3 :
    Bind(ParseText(k3.rest), LAMBDA fi :
        IF /\ m.ok /\ m.val = 4
           /\ k0.ok /\ ts.ok /\ k1.ok /\ us.ok /\ k2.ok /\ ty.ok /\ k3.ok /\ fi.ok
           /\ fi.rest = <<>>
        THEN [ok |-> TRUE, val |-> GourceLogFormat(ts.val, us.val, ty.val, fi.val)]
        ELSE [ok |-> FALSE, val |-> 0])))))))))

\* struct DiskGourceLog { size: u16, data: Vec<u8> }
DiskGourceLog(size, data) == [size |-> size, data |-> data]

\* log_to_bytes with `data.len() as u16` in place of u16::try_from.
LogToBytesWrapping(log) ==
    LET data == EncodeCbor(log)
    IN  [ok |-> TRUE, val |-> DiskGourceLog(BLen(data) % (U16Max + 1), data)]

\* log_to_bytes: the CBOR bytes and their length as a u16; u16::try_from
\* fails when the length does not fit.
LogToBytes(log) ==
    LET data == EncodeCbor(log)
    IN  IF BLen(data) > U16Max
        THEN [ok |-> FALSE, val |-> DiskGourceLog(0, <<>>)]
        ELSE [ok |-> TRUE, val |-> DiskGourceLog(BLen(data), data)]

\* serialize_logs with the failing records filtered out instead of failing.
RECURSIVE SerializeLogsSkipping(_)
SerializeLogsSkipping(changes) ==
    IF changes = <<>> THEN [ok |-> TRUE, val |-> <<>>]
    ELSE LET h == LogToBytes(Head(changes))
             t == SerializeLogsSkipping(Tail(changes))
         IN  [ok |-> TRUE, val |-> (IF h.ok THEN <<h.val>> ELSE <<>>) \o t.val]

\* serialize_logs: every record through log_to_bytes, collected into one
\* Result: the first error fails the whole collection.
RECURSIVE SerializeLogs(_)
SerializeLogs(changes) ==
    IF changes = <<>> THEN [ok |-> TRUE, val |-> <<>>]
    ELSE LET h == LogToBytes(Head(changes))
             t == SerializeLogs(Tail(changes))
         IN  IF h.ok /\ t.ok THEN [ok |-> TRUE, val |-> <<h.val>> \o t.val]
             ELSE [ok |-> FALSE, val |-> <<>>]

\* u16::to_be_bytes in place of to_le_bytes.
SizeBytesBigEndian(size) == <<size \div 256, size % 256>>

\* u16::to_le_bytes
SizeToLeBytes(size) == <<size % 256, size \div 256>>

\* The first two bytes of s read as a big-endian u16.
SizeFromBeBytes(s) == 256 * BAt(s, 0) + BAt(s, 1)

\* u16::from_le_bytes on the first two bytes of s
SizeFromLeBytes(s) == BAt(s, 0) + 256 * BAt(s, 1)

\* ------------------------------------------------------------- spool writer
\* io::BufWriter<fs::File>: the bytes still in memory and the bytes in the file.
BufWriter(buf, file) == [buf |-> buf, file |-> file]

\* What an I/O operation of one call may do: "flush" fails the write of the
\* buffered bytes to the file, "direct" fails the unbuffered write of the data.
IoFaults == {"none", "flush", "direct"}

\* BufWriter::flush_buf: the buffered bytes go to the file; nothing to do, and
\* nothing that can fail, when the buffer is empty.
FlushBuf(w, fault) ==
    IF w.buf = <<>> THEN [ok |-> TRUE, w |-> w]
    ELSE IF fault = "flush" THEN [ok |-> FALSE, w |-> w]
    ELSE [ok |-> TRUE, w |-> BufWriter(<<>>, BCat(w.file, w.buf))]

\* BufWriter::write_all: data that fits the spare capacity is buffered; else
\* the buffer is flushed when the data exceeds the spare capacity, and data of
\* at least the capacity is written to the file directly.
WriteAll(w, data, fault) ==
    LET spare == BufWriterCapacity - BLen(w.buf)
    IN  IF BLen(data) < spare
        THEN [ok |-> TRUE, w |-> BufWriter(BCat(w.buf, data), w.file)]
        ELSE LET f == IF BLen(data) > spare THEN FlushBuf(w, fault)
                      ELSE [ok |-> TRUE, w |-> w]
             IN  IF ~f.ok THEN f
                 ELSE IF BLen(data) >= BufWriterCapacity
                 THEN IF fault = "direct" THEN [ok |-> FALSE, w |-> f.w]
                      ELSE [ok |-> TRUE,
                            w  |-> BufWriter(f.w.buf, BCat(f.w.file, data))]
                 ELSE [ok |-> TRUE, w |-> BufWriter(BCat(f.w.buf, data), f.w.file)]

\* A flush that reports success without writing the buffer out.
FlushSkipped(w, fault) == [ok |-> TRUE, w |-> w]

\* BufWriter::flush as read_git_log calls it once the producers are through.
Flush(w, fault) == FlushBuf(w, fault)

\* log_write issues two write_all calls for a frame: the length prefix
\* (part 0) and the payload (part 1).
FramePart(log, part) ==
    IF part = 0 THEN BFromSeq(SizeToLeBytes(log.size)) ELSE log.data

\* ------------------------------------------------------------- spool reader
\* Iterator::next of DiskLogReader on the bytes from the reader's position:
\* None when the length prefix or the payload cannot be read in full (the
\* failed read_exact has consumed what was left), or the payload does not
\* decode (the frame has been consumed); else the record and the bytes that
\* follow.
ReaderNext(s) ==
    IF BLen(s) < 2 THEN [some |-> FALSE, val |-> 0, rest |-> <<>>]
    ELSE Bind(SizeFromLeBytes(s), LAMBDA data_size :
         Bind(BDrop(s, 2), LAMBDA after :
             IF BLen(after) < data_size
             THEN [some |-> FALSE, val |-> 0, rest |-> <<>>]
             ELSE Bind(DecodeCbor(BTake(after, data_size)), LAMBDA dec :
                      IF ~dec.ok
                      THEN [some |-> FALSE, val |-> 0, rest |-> BDrop(after, data_size)]
                      ELSE [some |-> TRUE, val |-> dec.val,
                            rest |-> BDrop(after, data_size)])))

\* The records a `for` loop over a fresh reader yields: next() until None.
RECURSIVE ReadAll(_)
ReadAll(s) ==
    Bind(ReaderNext(s), LAMBDA n :
        IF n.some THEN <<n.val>> \o ReadAll(n.rest) ELSE <<>>)

\* The loop of record_count on the bytes from the reader's position: read a
\* length prefix, seek over the payload (a seek past the end succeeds), count;
\* the counter is returned when a prefix cannot be read in full.
RECURSIVE RecordCount(_)
RecordCount(s) ==
    IF BLen(s) < 2 THEN 0
    ELSE Bind(SizeFromLeBytes(s), LAMBDA data_size :
             1 + RecordCount(BDrop(BDrop(s, 2), data_size)))

\* self.reader.seek(io::SeekFrom::Start(0)) when record_count returns.
PositionAfterCount(file, pos) == 0

\* --------------------------------------------------------------- sort phase
RemoveAt(q, i) == SubSeq(q, 1, i - 1) \o SubSeq(q, i + 1, Len(q))

\* Every arrangement of the slice that is non-decreasing in the timestamp.
RECURSIVE OrderedByTimestamp(_)
OrderedByTimestamp(logs) ==
    IF logs = <<>> THEN {<<>>}
    ELSE UNION { Bind(RemoveAt(logs, i), LAMBDA others :
                     { <<logs[i]>> \o rest : rest \in OrderedByTimestamp(others) })
                 : i \in { j \in 1..Len(logs) :
                             \A k \in 1..Len(logs) :
                                 logs[j].timestamp <= logs[k].timestamp } }

\* The slice is non-decreasing in the timestamp.
IsSortedByTimestamp(logs) ==
    \A i \in 1..(Len(logs) - 1) : logs[i].timestamp <= logs[i + 1].timestamp

\* An unstable sort that rearranges equal keys even in a slice in order.
SortUnstableRearranging(logs) == OrderedByTimestamp(logs)

\* logs.sort_unstable_by_key(|log| log.timestamp): the slice ordered by
\* timestamp alone.  A slice that is already in order is left as it is: the
\* sort finds the existing run, or insertion-sorts a short slice, and moves
\* nothing.  Otherwise the order of records with equal timestamps is
\* unspecified, and every arrangement non-decreasing in the timestamp is a
\* result.
SortUnstableByKey(logs) ==
    IF IsSortedByTimestamp(logs) THEN {logs} ELSE OrderedByTimestamp(logs)

\* The sequence is non-decreasing under the comparison key.
IsSortedByCmp(q) == \A i \in 1..(Len(q) - 1) : Cmp(q[i], q[i + 1]) <= 0

\* Insertion of one record into a sorted sequence, after its equals.
RECURSIVE InsertSorted(_, _)
InsertSorted(q, r) ==
    IF q = <<>> THEN <<r>>
    ELSE IF Cmp(r, Head(q)) < 0 THEN <<r>> \o q
    ELSE <<Head(q)>> \o InsertSorted(Tail(q), r)

\* A chunk written as it was filled.
ChunkAsFilled(q) == q

\* A stable sort by the comparison key.
RECURSIVE SortChunk(_)
SortChunk(q) ==
    IF q = <<>> THEN <<>>
    ELSE Bind(SortChunk(SubSeq(q, 1, Len(q) - 1)), LAMBDA sorted :
             InsertSorted(sorted, q[Len(q)]))

\* size_of::<GourceLogFormat>(): an i64, two Strings and a one-byte enum.
RecordStackSize == 64

\* The estimated size of a record in a SortChunk, as the derived DeepSizeOf
\* gives it: the struct and the bytes of its two strings.
EstimatedSize(r) == RecordStackSize + r.username.n + r.file.n

\* The estimated size of a SortChunk.
RECURSIVE ChunkSize(_)
ChunkSize(q) ==
    IF q = <<>> THEN 0 ELSE EstimatedSize(Head(q)) + ChunkSize(Tail(q))

\* The records that go into the next SortChunk: records are taken until the
\* next one would take the chunk's estimated size over the budget; a chunk
\* holds at least one record.
ChunkLen(recs, budget) ==
    CHOOSE n \in 1..Len(recs) :
        /\ n = 1 \/ ChunkSize(SubSeq(recs, 1, n)) <= budget
        /\ n = Len(recs) \/ ChunkSize(SubSeq(recs, 1, n + 1)) > budget

\* Partition pass: the records of the spool cut into chunks under the byte
\* budget, each chunk sorted.
RECURSIVE PartitionPass(_, _)
PartitionPass(recs, budget) ==
    IF recs = <<>> THEN <<>>
    ELSE Bind(ChunkLen(recs, budget), LAMBDA n :
             <<SortChunk(SubSeq(recs, 1, n))>>
             \o PartitionPass(SubSeq(recs, n + 1, Len(recs)), budget))

\* The first chunk that is not exhausted, whatever its head.
FirstHead(chunks) == CHOOSE i \in 1..Len(chunks) : chunks[i] # <<>> /\ \A j \in 1..(i - 1) : chunks[j] = <<>>

\* The chunk whose head is smallest, the lowest index among equal heads.
MinHead(chunks) ==
    CHOOSE i \in 1..Len(chunks) :
        /\ chunks[i] # <<>>
        /\ \A j \in 1..Len(chunks) :
              chunks[j] # <<>> =>
                  \/ Cmp(chunks[i][1], chunks[j][1]) < 0
                  \/ (Cmp(chunks[i][1], chunks[j][1]) = 0 /\ i <= j)

\* The k-way merge of the chunk files, run to its end.
RECURSIVE MergeAll(_)
MergeAll(chunks) ==
    IF \A i \in 1..Len(chunks) : chunks[i] = <<>> THEN <<>>
    ELSE Bind(MinHead(chunks), LAMBDA i :
             <<chunks[i][1]>> \o MergeAll([chunks EXCEPT ![i] = Tail(chunks[i])]))

\* The external merge sort: partition pass, then k-way merge.
ExternalSort(recs, budget) == MergeAll(PartitionPass(recs, budget))

\* -------------------------------------------------------------------- input
\* The records the commits of the model change.  The records of one commit
\* share the commit's time and author and come in the order of their paths.
\* LogA, LogB and LogC belong to commits of one second by one author; LogMax
\* and LogOver to a commit whose author name is so long that the record of
\* file "a" encodes to exactly u16::MAX bytes and the record of file "aa" to
\* one byte more; LogMid to a commit whose record encodes to one byte less
\* than the BufWriter's capacity, so that with its length prefix it does not
\* fit the buffer.
LogA == GourceLogFormat(1, Str(117, 1), "A", Str(97, 1))
LogB == GourceLogFormat(1, Str(117, 1), "M", Str(98, 1))
LogC == GourceLogFormat(1, Str(117, 1), "D", Str(99, 1))
LogMax == GourceLogFormat(0, Str(117, U16Max - 12), "A", Str(97, 1))
LogOver == GourceLogFormat(0, Str(117, U16Max - 12), "A", Str(97, 2))
LogMid == GourceLogFormat(1, Str(117, BufWriterCapacity - 13), "A", Str(97, 1))

\* A record of the commits of LogA whose path is so long that its estimated
\* size is twice that of LogA.
LogLong == GourceLogFormat(1, Str(117, 1), "A", Str(97, RecordStackSize + 3))

\* The memory budgets of the model, in bytes: room for 1..MaxChunkRecords
\* records of the size of LogA.
ChunkBudgets == { n * EstimatedSize(LogA) : n \in 1..MaxChunkRecords }

\* The change lists the diffs of the model's commits yield: none, one record
\* that fills the buffer, one record at the frame boundary, records of one
\* second (the same second in every commit that yields them), an encodable
\* record followed by an oversize one.
Diffs ==
    { <<>>,
      <<LogMid>>,
      <<LogMax>>,
      <<LogA, LogB>>,
      <<LogMax, LogOver>>,
      <<LogA, LogB, LogC>> }

Batches == { d \in Diffs : Len(d) <= MaxBatchLen }

Producers == 1..NumCommits

\* -------------------------------------------------------------------- state
VARIABLES
    locked_output_writer,  \* "Some" (spooled mode) or "None" (buffered mode)
    commits,               \* the change list each commit's diff yields
    pc,                    \* where each producer (closure of for_each) stands
    changes,               \* the producer's `changes`
    frames,                \* the producer's serialized `changes`
    wpos,                  \* write_all calls the producer's batch_log_write made
    outcome,               \* how each producer's batch ended
    writer,                \* the BufWriter behind locked_output_writer
    writer_holder,         \* holder of the writer mutex, 0 when free
    writer_poisoned,       \* the writer mutex is poisoned
    logs,                  \* the Vec behind log_lock
    log_holder,            \* holder of log_lock, 0 when free
    main_pc,               \* where the calling thread stands
    chunk_files,           \* the sorted chunk files of the external sort
    output,                \* the ordered sequence the sort phase produced
    accepted,              \* history: the bytes write_all calls accepted
    trace,                 \* history: <<producer, index>> of each frame written
    cmp_args,              \* the records a, b, c handed to cmp
    cmp_result,            \* the orderings cmp returned for them
    merge_input,           \* history: the chunk files a merge on its own began with
    reader_src,            \* history: the frames and the tail reader_file is made of
    reader_file,           \* the bytes of the file behind a DiskLogReader
    reader_pos,            \* the reader's position in the file
    reader_items,          \* history: what the calls of next() returned
    reader_count,          \* history: the record_count() call, if one was made
    cfg_chunk_size,        \* the chunk_size handed to MergeSortConfig::new
    cfg_tmp_location,      \* the tmp_location handed to MergeSortConfig::new
    fs_dirs,               \* the directories of the filesystem
    fs_files,              \* the regular files of the filesystem
    cfg_result,            \* what MergeSortConfig::new returned, once called
    part_batches,          \* the batches of a spool, in the order they reached it
    part_budget,           \* the memory budget of a partition pass on its own
    part_chunks,           \* the chunk files that partition pass left
    sort_mode,             \* "memory" or "external": the sort phase tried on its own
    sort_input,            \* the records handed to that sort phase
    sort_outputs,          \* history: what the sort and the sort of its output returned
    disc_dirs,             \* the directories below the root discover_repositories searches
    disc_args,             \* recursive, include and exclude handed to discover_repositories
    disc_result,           \* what discover_repositories returned, once called
    diff_deltas,           \* what try_from_delta returns for the deltas of a commit's diff
    diff_limit,            \* the limit handed to compute_diff
    diff_build,            \* whether the build checks arithmetic overflow
    diff_result            \* what compute_diff returned, once called

\* The state of the ingestion run and its sort phase.
run_vars == <<locked_output_writer, commits, pc, changes, frames, wpos, outcome,
              writer, writer_holder, writer_poisoned, logs, log_holder, main_pc,
              chunk_files, output, accepted, trace>>

\* The state of a use of cmp on its own.
cmp_vars == <<cmp_args, cmp_result>>

\* The state of a DiskLogReader used on its own.
reader_vars == <<reader_src, reader_file, reader_pos, reader_items, reader_count>>

\* The state of a call of MergeSortConfig::new.
config_vars == <<cfg_chunk_size, cfg_tmp_location, fs_dirs, fs_files, cfg_result>>

\* The state of a partition pass on its own.
partition_vars == <<part_batches, part_budget, part_chunks>>

\* The state of a sort phase on its own.
sort_vars == <<sort_mode, sort_input, sort_outputs>>

\* The state of a call of discover_repositories.
discover_vars == <<disc_dirs, disc_args, disc_result>>

\* The state of a call of compute_diff.
diff_vars == <<diff_deltas, diff_limit, diff_build, diff_result>>

\* The state outside the ingestion run.
aux_vars == <<cmp_vars, merge_input, reader_vars, config_vars, partition_vars,
              sort_vars, discover_vars, diff_vars>>

vars == <<run_vars, aux_vars>>

\* No use of cmp on its own is under way.
CmpIdle == cmp_args = <<>> /\ cmp_result = <<>>

\* No merge on its own is under way.
MergeIdle == merge_input = <<>>

\* No reader on its own is open.
ReaderIdle ==
    /\ reader_src = <<>>
    /\ reader_file = <<>>
    /\ reader_pos = 0
    /\ reader_items = <<>>
    /\ reader_count = <<>>

\* No configuration is being built.
ConfigIdle ==
    /\ cfg_chunk_size = <<>>
    /\ cfg_tmp_location = <<>>
    /\ fs_dirs = {}
    /\ fs_files = {}
    /\ cfg_result = <<>>

\* No partition pass on its own is under way.
PartitionIdle ==
    /\ part_batches = <<>>
    /\ part_budget = 0
    /\ part_chunks = <<>>

\* No sort phase on its own is under way.
SortIdle ==
    /\ sort_mode = "none"
    /\ sort_input = <<>>
    /\ sort_outputs = <<>>

\* No search for repositories is under way.
DiscoverIdle ==
    /\ disc_dirs = {}
    /\ disc_args = <<>>
    /\ disc_result = <<>>

\* No diff on its own is being computed.
DiffIdle ==
    /\ diff_deltas = <<>>
    /\ diff_limit = <<>>
    /\ diff_build = "none"
    /\ diff_result = <<>>

Init ==
    /\ locked_output_writer \in {"Some", "None"}
    /\ commits \in [Producers -> Batches]
    /\ pc = [p \in Producers |-> "start"]
    /\ changes = [p \in Producers |-> <<>>]
    /\ frames = [p \in Producers |-> <<>>]
    /\ wpos = [p \in Producers |-> 0]
    /\ outcome = [p \in Producers |-> "pending"]
    /\ writer = BufWriter(<<>>, <<>>)
    /\ writer_holder = 0
    /\ writer_poisoned \in (IF locked_output_writer = "Some" THEN BOOLEAN ELSE {FALSE})
    /\ logs = <<>>
    /\ log_holder = 0
    /\ main_pc = "for_each"
    /\ chunk_files = <<>>
    /\ output = <<>>
    /\ accepted = <<>>
    /\ trace = <<>>
    /\ CmpIdle
    /\ MergeIdle
    /\ ReaderIdle
    /\ ConfigIdle
    /\ PartitionIdle
    /\ SortIdle
    /\ DiscoverIdle
    /\ DiffIdle

\* The producers write to the spool whatever the mode.
UsesSpoolAlways == TRUE

\* `if let Some(writer) = locked_output_writer.as_ref()` in the producer.
UsesSpool == locked_output_writer = "Some"

\* A lock that never waits for its holder.
LockNeverWaits(holder) == TRUE

\* Mutex::lock blocks until the mutex is free.
LockFree(holder) == holder = 0

\* A for_each that returns before its tasks are through.
ForEachReturnsEarly == TRUE

\* commits.par_iter().for_each(..) returns once every task has run to its end.
ForEachJoined == \A p \in Producers : pc[p] = "done"

Finish(p, how) ==
    /\ pc' = [pc EXCEPT ![p] = "done"]
    /\ outcome' = [outcome EXCEPT ![p] = how]

\* The closure up to its lock: open the repository, find the commit, compute
\* the diff (each may fail and end the task), return on an empty change list,
\* and in spooled mode serialize the changes.
ProducerStart(p) ==
    /\ pc[p] = "start"
    /\ \E diff_ok \in BOOLEAN :
          IF ~diff_ok
          THEN Finish(p, "diff_failed") /\ UNCHANGED <<changes, frames>>
          ELSE IF commits[p] = <<>>
          THEN Finish(p, "empty") /\ UNCHANGED <<changes, frames>>
          ELSE IF UsesSpool
          THEN LET ser == SerializeLogs(commits[p])
               IN  IF ser.ok
                   THEN /\ frames' = [frames EXCEPT ![p] = ser.val]
                        /\ changes' = [changes EXCEPT ![p] = commits[p]]
                        /\ pc' = [pc EXCEPT ![p] = "serialized"]
                        /\ UNCHANGED outcome
                   ELSE Finish(p, "encode_failed") /\ UNCHANGED <<changes, frames>>
          ELSE /\ changes' = [changes EXCEPT ![p] = commits[p]]
               /\ pc' = [pc EXCEPT ![p] = "diffed"]
               /\ UNCHANGED <<frames, outcome>>
    /\ UNCHANGED aux_vars
    /\ UNCHANGED <<locked_output_writer, commits, wpos, writer, writer_holder,
                   writer_poisoned, logs, log_holder, main_pc, chunk_files, output,
                   accepted, trace>>

\* writer.lock() in the producer: an error on a poisoned mutex drops the batch.
LockWriter(p) ==
    /\ pc[p] = "serialized"
    /\ LockFree(writer_holder)
    /\ IF writer_poisoned
       THEN Finish(p, "lock_failed") /\ UNCHANGED <<writer_holder, wpos>>
       ELSE /\ writer_holder' = p
            /\ wpos' = [wpos EXCEPT ![p] = 0]
            /\ pc' = [pc EXCEPT ![p] = "writing"]
            /\ UNCHANGED outcome
    /\ UNCHANGED aux_vars
    /\ UNCHANGED <<locked_output_writer, commits, changes, frames, writer,
                   writer_poisoned, logs, log_holder, main_pc, chunk_files, output,
                   accepted, trace>>

\* One write_all of batch_log_write; an error ends the batch where it stands,
\* the last call ends it as written, and either way the guard is dropped.
WriteStep(p) ==
    /\ pc[p] = "writing"
    /\ \E fault \in IoFaults :
          LET i    == (wpos[p] \div 2) + 1
              part == wpos[p] % 2
              data == FramePart(frames[p][i], part)
              r    == WriteAll(writer, data, fault)
              last == wpos[p] + 1 = 2 * Len(frames[p])
          IN  /\ writer' = r.w
              /\ IF r.ok
                 THEN /\ accepted' = BCat(accepted, data)
                      /\ trace' = IF part = 1 THEN Append(trace, <<p, i>>) ELSE trace
                      /\ wpos' = [wpos EXCEPT ![p] = wpos[p] + 1]
                      /\ IF last
                         THEN Finish(p, "written") /\ writer_holder' = 0
                         ELSE UNCHANGED <<pc, outcome, writer_holder>>
                 ELSE /\ Finish(p, "write_failed")
                      /\ writer_holder' = 0
                      /\ UNCHANGED <<accepted, trace, wpos>>
    /\ UNCHANGED aux_vars
    /\ UNCHANGED <<locked_output_writer, commits, changes, frames,
                   writer_poisoned, logs, log_holder, main_pc, chunk_files,
                   output>>

\* log_lock.lock() in the producer.
LockLogs(p) ==
    /\ pc[p] = "diffed"
    /\ LockFree(log_holder)
    /\ log_holder' = p
    /\ pc' = [pc EXCEPT ![p] = "appending"]
    /\ UNCHANGED aux_vars
    /\ UNCHANGED <<locked_output_writer, commits, changes, frames, wpos, outcome,
                   writer, writer_holder, writer_poisoned, logs, main_pc,
                   chunk_files, output, accepted, trace>>

\* An append that puts the batch in back to front.
VecAppendReversed(v, batch) ==
    v \o [i \in 1..Len(batch) |-> batch[Len(batch) + 1 - i]]

\* Vec::append: the elements of the batch go to the end, in their order.
VecAppend(v, batch) == v \o batch

\* logs.append(&mut changes), then the guard is dropped.
AppendLogs(p) ==
    /\ pc[p] = "appending"
    /\ logs' = VecAppend(logs, changes[p])
    /\ changes' = [changes EXCEPT ![p] = <<>>]
    /\ log_holder' = 0
    /\ Finish(p, "appended")
    /\ UNCHANGED aux_vars
    /\ UNCHANGED <<locked_output_writer, commits, frames, wpos, writer,
                   writer_holder, writer_poisoned, main_pc, chunk_files, output,
                   accepted, trace>>

\* After for_each: in spooled mode lock the writer and flush it, either of
\* which may fail and is returned as the error; then return the Vec.
FlushAndReturn ==
    /\ main_pc = "for_each"
    /\ ForEachJoined
    /\ IF locked_output_writer = "Some"
       THEN /\ LockFree(writer_holder)
            /\ IF writer_poisoned
               THEN main_pc' = "err_lock" /\ UNCHANGED writer
               ELSE \E fault \in IoFaults :
                       LET r == Flush(writer, fault)
                       IN  /\ writer' = r.w
                           /\ main_pc' = IF r.ok THEN "returned_ok" ELSE "err_flush"
       ELSE main_pc' = "returned_ok" /\ UNCHANGED writer
    /\ UNCHANGED aux_vars
    /\ UNCHANGED <<locked_output_writer, commits, pc, changes, frames, wpos,
                   outcome, writer_holder, writer_poisoned, logs, log_holder,
                   chunk_files, output, accepted, trace>>

\* write_gource_log on the returned Vec: the in-memory sort.
WriteGourceLog ==
    /\ main_pc = "returned_ok"
    /\ locked_output_writer = "None"
    /\ output' \in SortUnstableByKey(logs)
    /\ main_pc' = "sorted"
    /\ UNCHANGED aux_vars
    /\ UNCHANGED <<locked_output_writer, commits, pc, changes, frames, wpos,
                   outcome, writer, writer_holder, writer_poisoned, logs,
                   log_holder, chunk_files, accepted, trace>>

\* Partition pass of the external merge sort: the records a reader of the
\* spool file yields, cut into sorted chunk files under the chosen budget.
PartitionSort ==
    /\ main_pc = "returned_ok"
    /\ locked_output_writer = "Some"
    /\ \E budget \in ChunkBudgets, recs \in {ReadAll(writer.file)} :
          chunk_files' = PartitionPass(recs, budget)
    /\ main_pc' = "merging"
    /\ UNCHANGED aux_vars
    /\ UNCHANGED <<locked_output_writer, commits, pc, changes, frames, wpos,
                   outcome, writer, writer_holder, writer_poisoned, logs,
                   log_holder, output, accepted, trace>>

\* K-way merge pass: emit the smallest head and advance only its chunk.
MergeStep ==
    /\ main_pc = "merging"
    /\ \E i \in 1..Len(chunk_files) : chunk_files[i] # <<>>
    /\ LET i == MinHead(chunk_files)
       IN  /\ output' = Append(output, chunk_files[i][1])
           /\ chunk_files' = [chunk_files EXCEPT ![i] = Tail(chunk_files[i])]
    /\ UNCHANGED aux_vars
    /\ UNCHANGED <<locked_output_writer, commits, pc, changes, frames, wpos,
                   outcome, writer, writer_holder, writer_poisoned, logs,
                   log_holder, main_pc, accepted, trace>>

\* The merge ends when every chunk is exhausted.
MergeDone ==
    /\ main_pc = "merging"
    /\ \A i \in 1..Len(chunk_files) : chunk_files[i] = <<>>
    /\ main_pc' = "sorted"
    /\ UNCHANGED aux_vars
    /\ UNCHANGED <<locked_output_writer, commits, pc, changes, frames, wpos,
                   outcome, writer, writer_holder, writer_poisoned, logs,
                   log_holder, chunk_files, output, accepted, trace>>

Next ==
    \/ \E p \in Producers : ProducerStart(p)
    \/ \E p \in Producers : LockWriter(p)
    \/ \E p \in Producers : WriteStep(p)
    \/ \E p \in Producers : LockLogs(p)
    \/ \E p \in Producers : AppendLogs(p)
    \/ FlushAndReturn
    \/ WriteGourceLog
    \/ PartitionSort
    \/ MergeStep
    \/ MergeDone

Spec == Init /\ [][Next]_vars

\* ------------------------------------------------------- cmp on its own
\* The run's variables while a specification other than Spec is at work.
IngestIdle ==
    /\ locked_output_writer = "None"
    /\ commits = [p \in Producers |-> <<>>]
    /\ pc = [p \in Producers |-> "done"]
    /\ changes = [p \in Producers |-> <<>>]
    /\ frames = [p \in Producers |-> <<>>]
    /\ wpos = [p \in Producers |-> 0]
    /\ outcome = [p \in Producers |-> "empty"]
    /\ writer = BufWriter(<<>>, <<>>)
    /\ writer_holder = 0
    /\ writer_poisoned = FALSE
    /\ logs = <<>>
    /\ log_holder = 0
    /\ accepted = <<>>
    /\ trace = <<>>

\* Neither an ingestion run nor a sort is under way.
RunIdle ==
    /\ IngestIdle
    /\ main_pc = "idle"
    /\ chunk_files = <<>>
    /\ output = <<>>

\* The records cmp is tried on: every field takes values that are less, equal
\* and greater, and the usernames run against the files and types.
CmpRecords ==
    { GourceLogFormat(ts, Str(user, 1), ty, file) :
          ts \in {50, 100}, user \in {97, 98, 99}, ty \in ActionTypes,
          file \in {Str(97, 1), Str(97, 2), Str(98, 1)} }

InitCmp ==
    /\ RunIdle
    /\ MergeIdle
    /\ ReaderIdle
    /\ ConfigIdle
    /\ PartitionIdle
    /\ SortIdle
    /\ DiscoverIdle
    /\ DiffIdle
    /\ cmp_args \in [1..3 -> CmpRecords]
    /\ cmp_result = <<>>

\* a.cmp(&b) for the pairs of the three records.
CmpApply ==
    /\ cmp_result = <<>>
    /\ cmp_result' = [ab |-> Cmp(cmp_args[1], cmp_args[2]),
                      ba |-> Cmp(cmp_args[2], cmp_args[1]),
                      bc |-> Cmp(cmp_args[2], cmp_args[3]),
                      ac |-> Cmp(cmp_args[1], cmp_args[3])]
    /\ UNCHANGED <<cmp_args, run_vars, merge_input, reader_vars, config_vars,
                   partition_vars, sort_vars, discover_vars, diff_vars>>

NextCmp == CmpApply

SpecCmp == InitCmp /\ [][NextCmp]_vars

\* --------------------------------------------------- k-way merge on its own
\* The records of the chunk files: two of one timestamp and an earlier one.
MergeRecords == {LogA, LogB, LogMax}

\* The chunk files a partition pass may leave: sorted, of up to
\* MaxChunkRecords records; an empty one stands for a chunk already exhausted.
SortedChunks ==
    { q \in UNION { [1..n -> MergeRecords] : n \in 0..MaxChunkRecords } :
          IsSortedByCmp(q) }

InitMerge ==
    /\ IngestIdle
    /\ CmpIdle
    /\ ReaderIdle
    /\ ConfigIdle
    /\ PartitionIdle
    /\ SortIdle
    /\ DiscoverIdle
    /\ DiffIdle
    /\ chunk_files \in UNION { [1..k -> SortedChunks] : k \in 0..MaxChunks }
    /\ merge_input = chunk_files
    /\ output = <<>>
    /\ main_pc = "merging"

NextMerge == MergeStep \/ MergeDone

SpecMerge == InitMerge /\ [][NextMerge]_vars

\* -------------------------------------------------- spool reader on its own
\* A stretch of a spool file: the frame of a record, or a whole frame whose
\* payload is no record.
Piece(kind, log) == [kind |-> kind, log |-> log]

Pieces == {Piece("frame", LogA), Piece("frame", LogB), Piece("corrupt", LogA)}

\* How a spool file ends: after its last whole frame, in the middle of a
\* length prefix, or in the middle of a payload.
Tails == {"whole", "partial_prefix", "short_payload"}

\* The bytes of the frame log_write writes for a record.
FrameBytes(log) ==
    Bind(LogToBytes(log), LAMBDA r :
        BCat(BFromSeq(SizeToLeBytes(r.val.size)), r.val.data))

\* A whole frame of one byte that is no CBOR map.
CorruptFrameBytes == BFromSeq(<<1, 0, 255>>)

PieceBytes(piece) ==
    IF piece.kind = "frame" THEN FrameBytes(piece.log) ELSE CorruptFrameBytes

TailBytes(tail) ==
    IF tail = "whole" THEN <<>>
    ELSE IF tail = "partial_prefix" THEN BTake(FrameBytes(LogB), 1)
    ELSE BTake(FrameBytes(LogB), BLen(FrameBytes(LogB)) - 1)

RECURSIVE FileBytes(_, _)
FileBytes(pieces, tail) ==
    IF pieces = <<>> THEN TailBytes(tail)
    ELSE Bind(FileBytes(Tail(pieces), tail), LAMBDA rest :
             BCat(PieceBytes(Head(pieces)), rest))

\* What next() returns: Some(Ok(record)), None, or Some(Err(..)).
Item(kind, val) == [kind |-> kind, val |-> val]

ItemNone == Item("none", LogA)

InitReader ==
    /\ RunIdle
    /\ CmpIdle
    /\ MergeIdle
    /\ ConfigIdle
    /\ PartitionIdle
    /\ SortIdle
    /\ DiscoverIdle
    /\ DiffIdle
    /\ \E pieces \in UNION { [1..n -> Pieces] : n \in 0..MaxFrames }, tail \in Tails :
          /\ reader_src = [pieces |-> pieces, tail |-> tail]
          /\ reader_file = FileBytes(pieces, tail)
    /\ reader_pos = 0
    /\ reader_items = <<>>
    /\ reader_count = <<>>

\* One call of next(); the caller may go on calling after a None.
ReaderNextCall ==
    /\ Len(reader_items) < MaxFrames + 2
    /\ \E n \in {ReaderNext(BDrop(reader_file, reader_pos))} :
          /\ reader_items' = Append(reader_items,
                                    IF n.some THEN Item("ok", n.val) ELSE ItemNone)
          /\ reader_pos' = BLen(reader_file) - BLen(n.rest)
    /\ UNCHANGED <<reader_src, reader_file, reader_count>>
    /\ UNCHANGED <<run_vars, cmp_vars, merge_input, config_vars, partition_vars,
                   sort_vars, discover_vars, diff_vars>>

\* One call of record_count().
RecordCountCall ==
    /\ reader_count = <<>>
    /\ reader_count' = [before |-> reader_pos,
                        after  |-> PositionAfterCount(reader_file, reader_pos),
                        count  |-> RecordCount(BDrop(reader_file, reader_pos)),
                        items  |-> Len(reader_items)]
    /\ reader_pos' = PositionAfterCount(reader_file, reader_pos)
    /\ UNCHANGED <<reader_src, reader_file, reader_items>>
    /\ UNCHANGED <<run_vars, cmp_vars, merge_input, config_vars, partition_vars,
                   sort_vars, discover_vars, diff_vars>>

NextReader == ReaderNextCall \/ RecordCountCall

SpecReader == InitReader /\ [][NextReader]_vars

\* ------------------------------------------- MergeSortConfig::new on its own
\* Option<T>: Some(v), or None, which carries a value of T that is never read.
Some(v) == [some |-> TRUE, val |-> v]

None(unread) == [some |-> FALSE, val |-> unread]

\* A path: whether it starts at the root, and its components, of which the
\* first may be "." or "~".
Path(root, comps) == [root |-> root, comps |-> comps]

\* The current directory and the home directory of the process.
Cwd == <<"work">>

Home == <<"home">>

\* shellexpand::tilde: a leading "~" becomes the home directory.
Tilde(p) ==
    IF ~p.root /\ p.comps # <<>> /\ p.comps[1] = "~"
    THEN Path(TRUE, Home \o Tail(p.comps))
    ELSE p

\* Path::parent: the path without its last component; None for the root
\* and for the empty path.
Parent(p) ==
    IF p.comps = <<>>
    THEN None(p)
    ELSE Some(Path(p.root, SubSeq(p.comps, 1, Len(p.comps) - 1)))

\* The absolute components a path names: a relative path starts at the
\* current directory and "." names the directory it stands in.
Resolve(p) ==
    IF p.root
    THEN p.comps
    ELSE Cwd \o SelectSeq(p.comps, LAMBDA c : c # ".")

\* Path::exists: the path names a directory or a file; the empty path names
\* nothing.
PathExists(p, dirs, files) ==
    /\ p.root \/ p.comps # <<>>
    /\ Resolve(p) \in dirs \cup files

\* The directories from the root down to the one of components q.
Ancestors(q) == { SubSeq(q, 1, n) : n \in 0..Len(q) }

\* fs::create_dir_all: the directories it leaves, or an error when a file
\* stands where a directory is needed.
CreateDirAll(p, dirs, files) ==
    IF Ancestors(Resolve(p)) \cap files # {}
    THEN [ok |-> FALSE, dirs |-> dirs]
    ELSE [ok |-> TRUE, dirs |-> dirs \cup Ancestors(Resolve(p))]

\* The default chunk size and the least chunk size the code accepts.
DefaultChunkSize == 4096

MinChunkSize == 50

\* anyhow::Result<MergeSortConfig>, with the directories the call leaves.
ConfigOk(chunk_size, tmp_location, dirs) ==
    [kind |-> "Ok", error |-> "none", chunk_size |-> chunk_size,
     tmp_location |-> tmp_location, dirs |-> dirs]

ConfigErr(error, tmp_location, dirs) ==
    [kind |-> "Err", error |-> error, chunk_size |-> 0,
     tmp_location |-> tmp_location, dirs |-> dirs]

\* The part of MergeSortConfig::new after the directory is there.
CheckChunkSize(chunk_size, tmp_location, dirs) ==
    IF chunk_size < MinChunkSize
    THEN ConfigErr("chunk_size", tmp_location, dirs)
    ELSE ConfigOk(chunk_size, tmp_location, dirs)

\* MergeSortConfig::new once tmp_location is a path.
NewAt(chunk_size, tmp_location, dirs, files) ==
    IF ~Parent(tmp_location).some
    THEN ConfigErr("no_parent", tmp_location, dirs)
    ELSE IF ~PathExists(Parent(tmp_location).val, dirs, files)
    THEN ConfigErr("parent_missing", tmp_location, dirs)
    ELSE IF ~CreateDirAll(tmp_location, dirs, files).ok
    THEN ConfigErr("io", tmp_location, dirs)
    ELSE CheckChunkSize(IF chunk_size.some THEN chunk_size.val ELSE DefaultChunkSize,
                        tmp_location,
                        CreateDirAll(tmp_location, dirs, files).dirs)

\* MergeSortConfig::new; random_chars are the five characters drawn for the
\* name of the default directory.
MergeSortConfigNew(chunk_size, tmp_location, random_chars, dirs, files) ==
    NewAt(chunk_size,
          IF tmp_location.some
          THEN Tilde(tmp_location.val)
          ELSE Path(FALSE, <<".", random_chars>>),
          dirs, files)

\* The largest chunk size tried.
MaxChunkSizeArg == 65

\* The names the random characters may give the default directory.
RandomChars == {"rource-temp-aaaaa", "rource-temp-bbbbb"}

\* The paths a user may give: a single relative name, "./t", "~/t", a
\* directory under /tmp, under a directory that is missing, under a regular
\* file, the root, and the empty path.
UserPaths ==
    { Path(FALSE, <<"t">>),
      Path(FALSE, <<".", "t">>),
      Path(FALSE, <<"~", "t">>),
      Path(TRUE, <<"tmp", "t">>),
      Path(TRUE, <<"nope", "t">>),
      Path(TRUE, <<"tmp", "f", "t">>),
      Path(TRUE, <<>>),
      Path(FALSE, <<>>) }

\* The directories every filesystem of the model has, and those it may have.
BaseDirs == { <<>>, <<"tmp">>, <<"home">>, <<"work">> }

MoreDirs == { <<"tmp", "t">>, <<"work", "t">>, <<"work", "rource-temp-aaaaa">> }

InitConfig ==
    /\ RunIdle
    /\ CmpIdle
    /\ MergeIdle
    /\ ReaderIdle
    /\ PartitionIdle
    /\ SortIdle
    /\ DiscoverIdle
    /\ DiffIdle
    /\ cfg_chunk_size \in {None(0)} \cup { Some(n) : n \in 0..MaxChunkSizeArg }
    /\ cfg_tmp_location \in {None(Path(FALSE, <<>>))} \cup { Some(p) : p \in UserPaths }
    /\ fs_dirs \in { BaseDirs \cup d : d \in SUBSET MoreDirs }
    /\ fs_files \in { {}, { <<"tmp", "f">> } }
    /\ cfg_result = <<>>

\* One call of MergeSortConfig::new.
ConfigCall ==
    /\ cfg_result = <<>>
    /\ \E random_chars \in RandomChars :
          \E r \in { MergeSortConfigNew(cfg_chunk_size, cfg_tmp_location,
                                        random_chars, fs_dirs, fs_files) } :
              /\ cfg_result' = [ret |-> r, dirs_before |-> fs_dirs]
              /\ fs_dirs' = r.dirs
    /\ UNCHANGED <<cfg_chunk_size, cfg_tmp_location, fs_files>>
    /\ UNCHANGED <<run_vars, cmp_vars, merge_input, reader_vars, partition_vars,
                   sort_vars, discover_vars, diff_vars>>

NextConfig == ConfigCall

SpecConfig == InitConfig /\ [][NextConfig]_vars

\* ------------------------------------------------ partition pass on its own
\* Concatenation of a sequence of sequences.
RECURSIVE Flatten(_)
Flatten(chunks) ==
    IF chunks = <<>> THEN <<>> ELSE Head(chunks) \o Flatten(Tail(chunks))

\* The batches the spool of a partition pass tried on its own is made of:
\* change lists of commits of one second by one author.
PartitionBatches ==
    { d \in { <<>>,
              <<LogA>>,
              <<LogB>>,
              <<LogMid>>,
              <<LogA, LogB>>,
              <<LogLong, LogB>>,
              <<LogA, LogB, LogC>> } : Len(d) <= MaxBatchLen }

InitPartition ==
    /\ RunIdle
    /\ CmpIdle
    /\ MergeIdle
    /\ ReaderIdle
    /\ ConfigIdle
    /\ SortIdle
    /\ DiscoverIdle
    /\ DiffIdle
    /\ part_batches \in UNION { [1..n -> PartitionBatches] : n \in 0..NumCommits }
    /\ part_budget \in ChunkBudgets
    /\ part_chunks = <<>>

\* The partition pass over the spool the batches left.
PartitionCall ==
    /\ part_chunks = <<>>
    /\ part_chunks' = <<PartitionPass(Flatten(part_batches), part_budget)>>
    /\ UNCHANGED <<part_batches, part_budget>>
    /\ UNCHANGED <<run_vars, cmp_vars, merge_input, reader_vars, config_vars,
                   sort_vars, discover_vars, diff_vars>>

NextPartition == PartitionCall

SpecPartition == InitPartition /\ [][NextPartition]_vars

\* ---------------------------------------------------- sort phase on its own
\* The records sorted: three of one second that differ in file and type, and
\* an earlier one.
SortRecords == {LogA, LogB, LogLong, LogMax}

InitSort ==
    /\ RunIdle
    /\ CmpIdle
    /\ MergeIdle
    /\ ReaderIdle
    /\ ConfigIdle
    /\ PartitionIdle
    /\ DiscoverIdle
    /\ DiffIdle
    /\ sort_mode \in {"memory", "external"}
    /\ sort_input \in UNION { [1..n -> SortRecords] : n \in 0..MaxSortLen }
    /\ sort_outputs = <<>>

\* What the next sort is applied to: the input, then the output of the sort.
SortOperand ==
    IF sort_outputs = <<>> THEN sort_input ELSE sort_outputs[Len(sort_outputs)]

\* The in-memory sort of write_gource_log.
SortInMemory ==
    /\ sort_mode = "memory"
    /\ Len(sort_outputs) < 2
    /\ \E sorted \in SortUnstableByKey(SortOperand) :
          sort_outputs' = Append(sort_outputs, sorted)
    /\ UNCHANGED <<sort_mode, sort_input>>
    /\ UNCHANGED <<run_vars, cmp_vars, merge_input, reader_vars, config_vars,
                   partition_vars, discover_vars, diff_vars>>

\* The external merge sort under some budget.
SortExternal ==
    /\ sort_mode = "external"
    /\ Len(sort_outputs) < 2
    /\ \E budget \in ChunkBudgets :
          sort_outputs' = Append(sort_outputs, ExternalSort(SortOperand, budget))
    /\ UNCHANGED <<sort_mode, sort_input>>
    /\ UNCHANGED <<run_vars, cmp_vars, merge_input, reader_vars, config_vars,
                   partition_vars, discover_vars, diff_vars>>

NextSort == SortInMemory \/ SortExternal

SpecSort == InitSort /\ [][NextSort]_vars

\* ------------------------------------------- discover_repositories on its own
\* The names a directory entry may have.
EntryNames == {"a", "b", ".git"}

\* What discover_repositories makes of one directory entry of `root`, a
\* directory named entry_name, given what the search of that directory
\* returns.
EntryRepositories(root, entry_name, recursive, include, exclude, sub_repositories) ==
    IF exclude # {} /\ entry_name \in exclude THEN {}
    ELSE IF include # {} /\ entry_name \notin include THEN {}
    ELSE IF entry_name = ".git" THEN {root}
    ELSE IF recursive THEN sub_repositories
    ELSE {}

\* discover_repositories: the repositories found below `root`, as paths from
\* the directory the search began in; `dirs` are the directories there are.
\* Entries that are not directories are skipped and are not in the model;
\* the order of the Vec is that of read_dir and is left out.
RECURSIVE DiscoverRepositories(_, _, _, _, _)
DiscoverRepositories(root, recursive, include, exclude, dirs) ==
    UNION { EntryRepositories(root, entry_name, recursive, include, exclude,
                IF recursive
                THEN DiscoverRepositories(root \o <<entry_name>>, recursive,
                                          include, exclude, dirs)
                ELSE {})
            : entry_name \in { n \in EntryNames : root \o <<n>> \in dirs } }

\* Deepest directory below the root of the search.
MaxDepth == 2

\* The directories the trees of the model are made of: repositories a and b,
\* a repository a/b inside a, a .git of the root, and a directory inside it.
CandidateDirs ==
    { d \in { <<"a">>, <<"b">>, <<".git">>,
              <<"a", ".git">>, <<"b", ".git">>, <<"a", "b">>, <<".git", "a">>,
              <<"a", "b", ".git">>, <<".git", "a", ".git">> } : Len(d) <= MaxDepth }

\* The directory trees: with every directory, the directories above it.
DirTrees ==
    { t \in SUBSET CandidateDirs :
          \A d \in t : Len(d) > 1 => SubSeq(d, 1, Len(d) - 1) \in t }

\* The names --include and --exclude may list.
FilterNames == {"a", "b"}

\* The arguments: --include and --exclude need --recursive, and exclude one
\* another.
DiscoverArgs ==
    { [recursive |-> r, include |-> i, exclude |-> e] :
          r \in BOOLEAN, i \in SUBSET FilterNames, e \in SUBSET FilterNames }

InitDiscover ==
    /\ RunIdle
    /\ CmpIdle
    /\ MergeIdle
    /\ ReaderIdle
    /\ ConfigIdle
    /\ PartitionIdle
    /\ SortIdle
    /\ DiffIdle
    /\ disc_dirs \in DirTrees
    /\ disc_args \in { a \in DiscoverArgs :
                          /\ (a.include # {} \/ a.exclude # {}) => a.recursive
                          /\ a.include = {} \/ a.exclude = {} }
    /\ disc_result = <<>>

\* One call of discover_repositories on the root.
DiscoverCall ==
    /\ disc_result = <<>>
    /\ disc_result' = <<DiscoverRepositories(<<>>, disc_args.recursive,
                                             disc_args.include, disc_args.exclude,
                                             disc_dirs)>>
    /\ UNCHANGED <<disc_dirs, disc_args>>
    /\ UNCHANGED <<run_vars, cmp_vars, merge_input, reader_vars, config_vars,
                   partition_vars, sort_vars, diff_vars>>

NextDiscover == DiscoverCall

SpecDiscover == InitDiscover /\ [][NextDiscover]_vars

\* ----------------------------------------------------- compute_diff on its own
\* usize::MAX.
UsizeMax == 2 ^ UsizeBits - 1

\* anyhow::Result<Vec<GourceLogFormat>>, or the panic of a build that checks
\* arithmetic overflow.
DiffOk(c) == [kind |-> "Ok", val |-> c]

DiffErr == [kind |-> "Err", val |-> <<>>]

DiffPanic == [kind |-> "panic", val |-> <<>>]

\* diff.deltas().filter_map(..): the records of the deltas try_from_delta
\* makes a record of, in the order of the deltas.
RECURSIVE FilterMap(_)
FilterMap(deltas) ==
    IF deltas = <<>> THEN <<>>
    ELSE (IF Head(deltas).some THEN <<Head(deltas).val>> ELSE <<>>)
         \o FilterMap(Tail(deltas))

\* iter.take(n).collect().
Take(q, n) == SubSeq(q, 1, IF n < Len(q) THEN n ELSE Len(q))

\* iter.take(limit + 1) where the sum wraps around.
TakeLimitPlusOne(records, limit) == Take(records, (limit + 1) % (UsizeMax + 1))

\* compute_diff: `diff` is None when the parent, the tree or the diff cannot
\* be had, else the deltas with what try_from_delta returns for each;
\* `checked` tells whether the build panics on arithmetic overflow.
ComputeDiff(diff, limit, checked) ==
    IF ~diff.some THEN DiffErr
    ELSE IF ~limit.some THEN DiffOk(FilterMap(diff.val))
    ELSE IF limit.val + 1 > UsizeMax /\ checked THEN DiffPanic
    ELSE IF Len(TakeLimitPlusOne(FilterMap(diff.val), limit.val)) > limit.val
    THEN DiffOk(<<>>)
    ELSE DiffOk(TakeLimitPlusOne(FilterMap(diff.val), limit.val))

\* The deltas of a commit's diff: changes of files a, b and c by one author
\* in one second, in path order, and a delta that is no change of the tree.
DeltaLists ==
    { d \in { <<>>,
              <<Some(LogA)>>,
              <<None(LogA)>>,
              <<Some(LogA), Some(LogB)>>,
              <<Some(LogA), None(LogB), Some(LogB)>>,
              <<Some(LogA), Some(LogB), Some(LogC)>> } :
          Len(FilterMap(d)) <= MaxBatchLen }

InitDiff ==
    /\ RunIdle
    /\ CmpIdle
    /\ MergeIdle
    /\ ReaderIdle
    /\ ConfigIdle
    /\ PartitionIdle
    /\ SortIdle
    /\ DiscoverIdle
    /\ diff_deltas \in {None(<<>>)} \cup { Some(d) : d \in DeltaLists }
    /\ diff_limit \in {None(0)} \cup { Some(n) : n \in 0..UsizeMax }
    /\ diff_build \in {"checked", "wrapping"}
    /\ diff_result = <<>>

\* One call of compute_diff.
ComputeDiffCall ==
    /\ diff_result = <<>>
    /\ diff_result' = <<ComputeDiff(diff_deltas, diff_limit, diff_build = "checked")>>
    /\ UNCHANGED <<diff_deltas, diff_limit, diff_build>>
    /\ UNCHANGED <<run_vars, cmp_vars, merge_input, reader_vars, config_vars,
                   partition_vars, sort_vars, discover_vars>>

NextDiff == ComputeDiffCall

SpecDiff == InitDiff /\ [][NextDiff]_vars

\* ------------------------------------------------------------------ claims
BagOfSeq(q) ==
    [x \in {q[i] : i \in DOMAIN q} |-> Cardinality({i \in DOMAIN q : q[i] = x})]

RECURSIVE BagSum(_, _)
BagSum(f, n) == IF n = 0 THEN EmptyBag ELSE BagSum(f, n - 1) (+) f[n]

Encodable(r) == BLen(EncodeCbor(r)) <= U16Max

AllEncodable(q) == \A i \in DOMAIN q : Encodable(q[i])

SelectEncodable(q) == SelectSeq(q, Encodable)

NoWriteFailure == \A p \in Producers : outcome[p] # "write_failed"

Returned == main_pc \in {"returned_ok", "merging", "sorted"}

\* The bytes of the frames of `trace`, in order.
RECURSIVE StreamOf(_)
StreamOf(t) ==
    IF t = <<>> THEN <<>>
    ELSE Bind(StreamOf(SubSeq(t, 1, Len(t) - 1)), LAMBDA before :
             BCat(before,
                  BCat(BFromSeq(SizeToLeBytes(frames[t[Len(t)][1]][t[Len(t)][2]].size)),
                       frames[t[Len(t)][1]][t[Len(t)][2]].data)))

\* The length prefixes written whose payload is still to come.
RECURSIVE PendingPrefixes(_)
PendingPrefixes(n) ==
    IF n = 0 THEN <<>>
    ELSE BCat(PendingPrefixes(n - 1),
              IF pc[n] = "writing" /\ wpos[n] % 2 = 1
              THEN BFromSeq(SizeToLeBytes(frames[n][(wpos[n] \div 2) + 1].size))
              ELSE <<>>)

\* Insertion by timestamp alone, after the records of the same timestamp.
RECURSIVE InsertByTimestamp(_, _)
InsertByTimestamp(q, r) ==
    IF q = <<>> THEN <<r>>
    ELSE IF r.timestamp < Head(q).timestamp THEN <<r>> \o q
    ELSE <<Head(q)>> \o InsertByTimestamp(Tail(q), r)

\* The arrangement by timestamp that keeps equal timestamps in arrival order.
RECURSIVE StableByTimestamp(_)
StableByTimestamp(q) ==
    IF q = <<>> THEN <<>>
    ELSE Bind(StableByTimestamp(SubSeq(q, 1, Len(q) - 1)), LAMBDA sorted :
             InsertByTimestamp(sorted, q[Len(q)]))

\* The in-memory sort left the records of equal timestamps in arrival order.
KeptArrivalOrder == locked_output_writer = "None" => output = StableByTimestamp(logs)

\* C1: the sequence the sort phase produces is non-decreasing under the
\* comparison key (timestamp, file, action ordinal, username); stated for the
\* runs whose in-memory sort did not reorder equal timestamps.
C1_OutputSortedByKey ==
    (main_pc = "sorted" /\ KeptArrivalOrder) => IsSortedByCmp(output)

C3_BatchContiguous ==
    /\ \A i, j, k \in DOMAIN trace :
          (i < j /\ j < k /\ trace[i][1] = trace[k][1]) => trace[j][1] = trace[i][1]
    /\ NoWriteFailure => accepted = BCat(StreamOf(trace), PendingPrefixes(NumCommits))

C3_Witness ==
    /\ Len(trace) >= 3
    /\ \E i, j \in DOMAIN trace : trace[i][1] # trace[j][1]
    /\ \E i \in DOMAIN trace : trace[i][2] = 2

\* C4: once read_git_log has left for_each (and so before anything is sorted
\* or emitted) every producer has completed and holds neither a batch nor a
\* lock.
C4_IngestionBarrier ==
    main_pc # "for_each" =>
        /\ \A p \in Producers : pc[p] = "done"
        /\ writer_holder = 0
        /\ log_holder = 0

C4_Witness ==
    /\ main_pc = "sorted"
    /\ Len(output) >= 2
    /\ \A p \in Producers : pc[p] = "done"

\* C5: in spooled mode a successful return of read_git_log finds every
\* producer finished, the write buffer empty and every accepted byte in the
\* spool file.
C5_FlushedOnReturn ==
    (locked_output_writer = "Some" /\ Returned) =>
        /\ \A p \in Producers : pc[p] = "done"
        /\ writer.buf = <<>>
        /\ writer.file = accepted

C5_Witness ==
    /\ locked_output_writer = "Some"
    /\ main_pc = "returned_ok"
    /\ accepted # <<>>
    /\ BLen(accepted) < BufWriterCapacity
    /\ writer.file = accepted

\* C6: a batch dropped because its producer could not take the lock does not
\* make the ingestion run fail: once every producer is through, read_git_log
\* does not return the lock's error.
C6_FailureIsolated ==
    (\E p \in Producers : outcome[p] = "lock_failed") => main_pc # "err_lock"

\* C7: in spooled mode the in-memory buffer stays empty, and in buffered mode
\* no byte is written to the spool.
C7_ModeExclusive ==
    /\ locked_output_writer = "Some" => logs = <<>>
    /\ locked_output_writer = "None" =>
          writer = BufWriter(<<>>, <<>>) /\ accepted = <<>> /\ trace = <<>>

C7_Witness ==
    /\ locked_output_writer = "Some"
    /\ main_pc = "returned_ok"
    /\ Len(trace) >= 2
    /\ writer.file # <<>>
    /\ logs = <<>>

\* The accepted batches in commit order.
RECURSIVE AcceptedRecords(_)
AcceptedRecords(n) ==
    IF n = 0 THEN <<>>
    ELSE AcceptedRecords(n - 1)
         \o (IF outcome[n] \in {"written", "appended"} THEN commits[n] ELSE <<>>)

\* C8: the final sequence is a function of the accepted batches alone: it is
\* their records in the order of the comparison key, whatever the
\* interleaving and arrival order; stated for the runs whose in-memory sort
\* did not reorder equal timestamps.
C8_Deterministic ==
    (main_pc = "sorted" /\ NoWriteFailure /\ KeptArrivalOrder) =>
        output = SortChunk(AcceptedRecords(NumCommits))

\* C9: a reader over the flushed spool yields the records written, in the
\* order written, with all four fields equal.
C9_RoundTrip ==
    (locked_output_writer = "Some" /\ main_pc = "returned_ok" /\ NoWriteFailure) =>
        ReadAll(writer.file) = [k \in DOMAIN trace |-> changes[trace[k][1]][trace[k][2]]]

C9_Witness ==
    /\ locked_output_writer = "Some"
    /\ main_pc = "returned_ok"
    /\ NoWriteFailure
    /\ Len(trace) >= 3
    /\ \E k \in DOMAIN trace : changes[trace[k][1]][trace[k][2]] = LogMax
    /\ \E k \in DOMAIN trace : changes[trace[k][1]][trace[k][2]] = LogB

\* C10: a batch is serialized exactly when each of its records encodes to at
\* most 65535 bytes (65535 succeeds, 65536 fails), and every frame's 16-bit
\* size equals the length of its payload, the encoding of its record.
C10_FrameSizeBoundary ==
    \A p \in Producers :
        /\ pc[p] \in {"serialized", "writing"} \/ outcome[p] \in {"written", "write_failed", "lock_failed"} =>
              /\ Len(frames[p]) = Len(commits[p])
              /\ \A i \in DOMAIN frames[p] :
                    /\ frames[p][i].data = EncodeCbor(commits[p][i])
                    /\ frames[p][i].size = BLen(frames[p][i].data)
                    /\ frames[p][i].size <= U16Max
                    /\ SizeFromLeBytes(BFromSeq(SizeToLeBytes(frames[p][i].size)))
                           = BLen(frames[p][i].data)
        /\ outcome[p] = "encode_failed" =>
              \E i \in DOMAIN commits[p] : BLen(EncodeCbor(commits[p][i])) >= U16Max + 1

C10_Witness ==
    \E p, q \in Producers :
        /\ pc[p] = "serialized"
        /\ \E i \in DOMAIN frames[p] : frames[p][i].size = U16Max
        /\ outcome[q] = "encode_failed"
        /\ \E i \in DOMAIN commits[q] : BLen(EncodeCbor(commits[q][i])) = U16Max + 1

\* The records of the batches of the producers of `order`, batch after batch.
RECURSIVE BatchesInOrder(_)
BatchesInOrder(order) ==
    IF order = <<>> THEN <<>>
    ELSE commits[Head(order)] \o BatchesInOrder(Tail(order))

\* The orders in which the producers of S may have reached the sink.
ArrivalOrders(S) ==
    { o \in [1..Cardinality(S) -> S] : \A i, j \in DOMAIN o : i # j => o[i] # o[j] }

\* C11: in either mode the sink holds the accepted batches one after the
\* other, each with its records in the order the batch listed them: the
\* buffer is the accepted batches in some arrival order, the frames of a
\* written batch are its records 1..n in a row, and a reader of the flushed
\* spool yields the written batches in some arrival order.
C11_WithinBatchOrder ==
    /\ locked_output_writer = "None" =>
          \E o \in ArrivalOrders({p \in Producers : outcome[p] = "appended"}) :
              logs = BatchesInOrder(o)
    /\ \A p \in Producers :
          outcome[p] = "written" =>
              /\ \A i \in DOMAIN frames[p] :
                    frames[p][i].data = EncodeCbor(commits[p][i])
              /\ \E k \in 0..(Len(trace) - Len(commits[p])) :
                    \A i \in 1..Len(commits[p]) : trace[k + i] = <<p, i>>
    /\ (locked_output_writer = "Some" /\ main_pc = "returned_ok" /\ NoWriteFailure) =>
          \E o \in ArrivalOrders({p \in Producers : outcome[p] = "written"}) :
              ReadAll(writer.file) = BatchesInOrder(o)

C11_Witness ==
    /\ locked_output_writer = "None"
    /\ \A p \in Producers : outcome[p] = "appended"
    /\ Len(commits[1]) >= 2
    /\ commits[1] # commits[NumCommits]
    /\ SubSeq(logs, Len(logs) - Len(commits[1]) + 1, Len(logs)) = commits[1]
    /\ SubSeq(logs, 1, Len(commits[NumCommits])) = commits[NumCommits]

\* C12: cmp is a total order consistent with equality: it is antisymmetric,
\* transitive and total, Equal exactly when all four fields are equal, and it
\* decides by timestamp, then file, then type with A < M < D, then username.
C12_CmpTotalOrder ==
    cmp_result # <<>> =>
        LET a == cmp_args[1]
            b == cmp_args[2]
            r == cmp_result
        IN  /\ r.ab \in {-1, 0, 1}
            /\ r.ab = 0 - r.ba
            /\ (r.ab <= 0 /\ r.bc <= 0) => r.ac <= 0
            /\ (r.ab = 0) <=> (a = b)
            /\ a.timestamp < b.timestamp => r.ab = -1
            /\ (a.timestamp = b.timestamp /\ a.file.c < b.file.c) => r.ab = -1
            /\ (a.timestamp = b.timestamp /\ a.file.c = b.file.c /\ a.file.n < b.file.n)
                  => r.ab = -1
            /\ (a.timestamp = b.timestamp /\ a.file = b.file
                    /\ <<a.type, b.type>> \in {<<"A", "M">>, <<"M", "D">>, <<"A", "D">>})
                  => r.ab = -1
            /\ (a.timestamp = b.timestamp /\ a.file = b.file /\ a.type = b.type
                    /\ a.username.c < b.username.c)
                  => r.ab = -1

\* (100, a, A, carol) is before (100, a, M, alice) and after (50, b, A, bob).
C12_Witness ==
    /\ cmp_result # <<>>
    /\ cmp_args[1] = GourceLogFormat(100, Str(99, 1), "A", Str(97, 1))
    /\ cmp_args[2] = GourceLogFormat(100, Str(97, 1), "M", Str(97, 1))
    /\ cmp_args[3] = GourceLogFormat(50, Str(98, 1), "A", Str(98, 1))
    /\ cmp_result.ab = -1
    /\ cmp_result.ac = 1

\* C13: the merge of K sorted chunk files that emits the smallest head
\* (lowest chunk index among equals) and advances only that chunk has
\* emitted, at every step, the first records of the in-memory sort of all the
\* records, and at its end exactly that sort.
C13_MergeEqualsSort ==
    main_pc \in {"merging", "sorted"} =>
        /\ output = SubSeq(SortChunk(Flatten(merge_input)), 1, Len(output))
        /\ main_pc = "sorted" => Len(output) = Len(Flatten(merge_input))

C13_Witness ==
    /\ main_pc = "sorted"
    /\ Len(merge_input) = MaxChunks
    /\ \A i \in DOMAIN merge_input : Len(merge_input[i]) = MaxChunkRecords
    /\ output # Flatten(merge_input)
    /\ \E i \in 1..(Len(output) - 1) : output[i] = output[i + 1]

\* What the first n calls of next() return on a reader over the bytes s when
\* nothing else touches the reader.
RECURSIVE Iterate(_, _)
Iterate(s, n) ==
    IF n = 0 THEN <<>>
    ELSE Bind(ReaderNext(s), LAMBDA r :
             <<IF r.some THEN Item("ok", r.val) ELSE ItemNone>>
                 \o Iterate(r.rest, n - 1))

\* C14: record_count leaves the reader where it was, wherever that is: the
\* position after the call is the position before it, and the calls of next()
\* return what they return when no count is taken; stated for the spools of
\* whole frames of records.
C14_CountKeepsPosition ==
    (/\ reader_count # <<>>
     /\ reader_src.tail = "whole"
     /\ \A i \in DOMAIN reader_src.pieces : reader_src.pieces[i].kind = "frame") =>
        /\ reader_count.after = reader_count.before
        /\ reader_items = Iterate(reader_file, Len(reader_items))

\* The frames of the file are all frames of records.
NoCorruptPiece ==
    \A i \in DOMAIN reader_src.pieces : reader_src.pieces[i].kind = "frame"

\* C15: iteration over a spool ends, and when the file ends inside a frame
\* (in the length prefix or in the payload) or right after one, next() yields
\* the record of every whole frame and then None, and never an error item.
C15_TruncatedTailEndsIteration ==
    (reader_count = <<>> /\ NoCorruptPiece) =>
        \A i \in DOMAIN reader_items :
            reader_items[i] =
                IF i <= Len(reader_src.pieces)
                THEN Item("ok", reader_src.pieces[i].log)
                ELSE ItemNone

C15_Witness ==
    /\ reader_count = <<>>
    /\ NoCorruptPiece
    /\ reader_src.tail = "short_payload"
    /\ Len(reader_src.pieces) = MaxFrames
    /\ Len(reader_items) = MaxFrames + 1
    /\ reader_items[MaxFrames + 1] = ItemNone
    /\ reader_pos = BLen(reader_file)

\* C16: when next() comes to a whole frame whose payload is no record, it
\* returns an error item: it does not return None, which ends the sequence,
\* nor the record of a later frame.
C16_CorruptFrameIsReported ==
    reader_count = <<>> =>
        \A i \in DOMAIN reader_items :
            (/\ i <= Len(reader_src.pieces)
             /\ reader_src.pieces[i].kind = "corrupt"
             /\ \A j \in 1..(i - 1) : reader_src.pieces[j].kind = "frame")
                => reader_items[i].kind = "err"

\* The bytes are whole frames of records, one after the other.
RECURSIVE WholeFrames(_)
WholeFrames(s) ==
    \/ s = <<>>
    \/ Bind(ReaderNext(s), LAMBDA n : n.some /\ WholeFrames(n.rest))

\* C17: whenever ingestion is cut short, the bytes in the spool file are
\* whole, decodable frames: in no state of a run without a failed write does
\* the file end inside a frame.
C17_SpoolIsWholeFrames ==
    NoWriteFailure => WholeFrames(writer.file)

\* The minimum the documentation of --sort-chunk-size gives, in MB.
DocumentedMinChunkSize == 64

\* The call got past the temp directory: it failed, if at all, on the chunk
\* size.
DirectoryAccepted ==
    /\ cfg_result # <<>>
    /\ cfg_result.ret.error \in {"none", "chunk_size"}

\* C18: MergeSortConfig::new rejects every chunk size below the documented
\* minimum of 64 with a configuration error, accepts every chunk size of 64
\* or more as it is, and takes 4096 when no chunk size is given.
C18_ChunkSizeFloor ==
    DirectoryAccepted =>
        IF ~cfg_chunk_size.some
        THEN /\ cfg_result.ret.kind = "Ok"
             /\ cfg_result.ret.chunk_size = 4096
        ELSE IF cfg_chunk_size.val < DocumentedMinChunkSize
        THEN cfg_result.ret.kind = "Err"
        ELSE /\ cfg_result.ret.kind = "Ok"
             /\ cfg_result.ret.chunk_size = cfg_chunk_size.val

\* The spools the batches of the partition pass leave when they reach the
\* spool in another order, each batch whole.
SpoolsOfBatches ==
    { Flatten([i \in DOMAIN part_batches |-> part_batches[o[i]]]) :
          o \in ArrivalOrders(DOMAIN part_batches) }

\* C19: under one budget, the partition pass leaves the same number of chunk
\* files for every order in which the same batches may have reached the spool.
C19_ChunkCountDeterministic ==
    part_chunks # <<>> =>
        \A spool \in SpoolsOfBatches :
            Len(PartitionPass(spool, part_budget)) = Len(part_chunks[1])

ChunkSizeAllowed ==
    ~cfg_chunk_size.some \/ cfg_chunk_size.val >= DocumentedMinChunkSize

\* The directory in which the temp path of the call is to be created exists:
\* the path names something below the root, and the directory that holds it
\* was there before the call.
TargetParentExists ==
    /\ cfg_result.ret.tmp_location.comps # <<>>
    /\ Resolve(cfg_result.ret.tmp_location) # <<>>
    /\ SubSeq(Resolve(cfg_result.ret.tmp_location), 1,
              Len(Resolve(cfg_result.ret.tmp_location)) - 1) \in cfg_result.dirs_before

\* C21: with an allowed chunk size and no regular file in the way,
\* MergeSortConfig::new succeeds and leaves the temp directory existing
\* whenever the directory in which it is to be created exists, a relative
\* path of one component in the current directory included, and fails for
\* the temp directory exactly when that directory is missing or the path has
\* no parent.
C21_TempDirectoryRule ==
    (cfg_result # <<>> /\ ChunkSizeAllowed /\ fs_files = {}) =>
        IF TargetParentExists
        THEN /\ cfg_result.ret.kind = "Ok"
             /\ Resolve(cfg_result.ret.tmp_location) \in fs_dirs
        ELSE /\ cfg_result.ret.kind = "Err"
             /\ cfg_result.ret.error \in {"no_parent", "parent_missing"}

\* C27: a call of MergeSortConfig::new that returns an error has created no
\* directory: the filesystem is as it was before the call.
C27_ErrorLeavesNoDirectory ==
    (cfg_result # <<>> /\ cfg_result.ret.kind = "Err") =>
        fs_dirs = cfg_result.dirs_before

\* The repositories of the tree: the directories that hold a .git directory
\* and do not lie inside a .git directory.
Repositories ==
    { d \in disc_dirs \cup {<<>>} :
          /\ d \o <<".git">> \in disc_dirs
          /\ \A k \in DOMAIN d : d[k] # ".git" }

\* The name of a repository's directory; the root of the search has a name
\* that no list holds.
DirectoryName(d) == IF d = <<>> THEN "root" ELSE d[Len(d)]

\* C22: a recursive search with an include list returns exactly the
\* repositories whose directory name is listed, one with an exclude list
\* exactly the repositories whose directory name is not listed, and no search
\* returns anything found inside a .git directory.
C22_IncludeExcludeFilter ==
    disc_result # <<>> =>
        /\ disc_result[1] \subseteq Repositories
        /\ (disc_args.recursive /\ disc_args.include # {}) =>
               disc_result[1] = { d \in Repositories :
                                     DirectoryName(d) \in disc_args.include }
        /\ (disc_args.recursive /\ disc_args.exclude # {}) =>
               disc_result[1] = { d \in Repositories :
                                     DirectoryName(d) \notin disc_args.exclude }

\* The records of the spool before the chunk file of index i begins.
RECURSIVE RecordsBefore(_, _)
RecordsBefore(chunks, i) ==
    IF i = 1 THEN 0 ELSE RecordsBefore(chunks, i - 1) + Len(chunks[i - 1])

\* C23: the chunk files the partition pass writes are each non-empty and
\* non-decreasing under the comparison key, together they hold the records
\* of the spool, each as often as the spool does, a chunk file other than the
\* last ends where the next record of the spool would have taken it over the
\* budget, and an empty spool leaves no chunk file and an empty output.
C23_PartitionPass ==
    part_chunks # <<>> =>
        \E chunks \in {part_chunks[1]}, spool \in {Flatten(part_batches)} :
            /\ \A i \in DOMAIN chunks :
                  chunks[i] # <<>> /\ IsSortedByCmp(chunks[i])
            /\ BagOfSeq(Flatten(chunks)) = BagOfSeq(spool)
            /\ \A i \in 1..(Len(chunks) - 1) :
                  ChunkSize(chunks[i])
                      + EstimatedSize(spool[RecordsBefore(chunks, i + 1) + 1])
                  > part_budget
            /\ spool = <<>> =>
                  chunks = <<>> /\ ExternalSort(spool, part_budget) = <<>>

\* C23 happens: a spool that is not in key order was cut into two chunk
\* files, the first of two records.
C23_Witness ==
    /\ part_batches = <<<<LogB>>, <<LogA, LogB>>>>
    /\ part_chunks = <<<<<<LogA, LogB>>, <<LogB>>>>>>

\* C25: in spooled mode, once read_git_log has flushed and returned, the
\* spool holds of every batch all frames or none, a batch whose write failed
\* included: the file is whole frames, and the write_all calls that were
\* accepted for a batch are none or all of them.
C25_BatchAllOrNothing ==
    (locked_output_writer = "Some" /\ main_pc = "returned_ok") =>
        /\ WholeFrames(writer.file)
        /\ \A p \in Producers :
              wpos[p] = 0 \/ wpos[p] = 2 * Len(frames[p])

\* C26: on a freshly opened reader over a spool of frames of records, its
\* last frame whole or cut short, record_count returns the number of records
\* that iterating the reader yields.
C26_CountAgreesWithIteration ==
    (reader_count # <<>> /\ reader_count.items = 0 /\ NoCorruptPiece) =>
        reader_count.count = Len(ReadAll(reader_file))

\* C24: when the diff can be had, compute_diff with the limit L returns no
\* record for a commit whose diff yields more than L records and all the
\* records, in their order, for a commit whose diff yields L or fewer; with
\* no limit it returns all the records.
C24_ChangesetLimit ==
    (diff_result # <<>> /\ diff_deltas.some) =>
        diff_result[1] =
            DiffOk(IF diff_limit.some /\ Len(FilterMap(diff_deltas.val)) > diff_limit.val
                   THEN <<>>
                   ELSE FilterMap(diff_deltas.val))

====
